---- MODULE Spec2Model ----
(***************************************************************************)
(* Model of fadv_shim_drop.c: an LD_PRELOAD shim that wraps open, open64,  *)
(* fopen, read, pread, readv, close and fclose, resolves the originals     *)
(* once with pthread_once/dlsym, loads three environment variables, and    *)
(* issues posix_fadvise hints on small regular files.                      *)
(*                                                                         *)
(* Each thread runs entry points step by step: the call, pthread_once,     *)
(* (for the initializer) the eight dlsym lookups and load_config_from_env, *)
(* the delegated call, fstat with the guards of try_open_hint/try_drop_fd, *)
(* posix_fadvise, and the return.  Every system call is one atomic step.   *)
(***************************************************************************)
EXTENDS Integers, Sequences, FiniteSets, TLC

\* ------------------------------------------------------------- bounds
\* number of threads of the host program
NThreads == 2
\* size of the descriptor table (open fails with EMFILE when it is full)
MaxFd == 2
\* longest value of FADV_SMALL_CUTOFF that CfgSpec enumerates
MaxLen == 3

\* most reads a descriptor gets between its open and its close in LifeSpec
MaxReads == 3

Threads == 1..NThreads
FDs == 0..(MaxFd - 1)

\* ------------------------------------------------------------- names
OpenFamily == {"open", "open64", "fopen"}
ReadFamily == {"read", "pread", "readv"}
CloseFamily == {"close", "fclose"}
Ops == OpenFamily \cup ReadFamily \cup CloseFamily

\* the order in which init_real_fns looks the symbols up
SymOrder == <<"open", "open64", "fopen", "read", "pread", "readv", "close", "fclose">>

\* the file system seen by the process: one regular file "f" (its size
\* is the variable size), one directory "d", a path whose parent does
\* not exist and a path the process may not open
Paths == {"f", "d", "missing", "denied"}

\* FILE* values: NULL, or the stream that wraps descriptor fd
NULL == 0
Handle(fd) == fd + 1
fileno(h) == h - 1

\* ------------------------------------------------------------- strings
\* C strings are sequences of one-character strings
NONE == <<"n", "o", "n", "e">>
NOREUSE == <<"n", "o", "r", "e", "u", "s", "e">>
ZERO == <<"0">>
Unset == [set |-> FALSE, val |-> <<>>]
EnvVal(s) == [set |-> TRUE, val |-> s]

isspace(c) == c \in {" "}
isdigit(c) == c \in {"0", "1", "2", "3", "4", "5", "6", "7", "8", "9"}
DigitVal(c) ==
  CASE c = "0" -> 0 [] c = "1" -> 1 [] c = "2" -> 2 [] c = "3" -> 3
    [] c = "4" -> 4 [] c = "5" -> 5 [] c = "6" -> 6 [] c = "7" -> 7
    [] c = "8" -> 8 [] c = "9" -> 9

RECURSIVE SkipSpace(_)
SkipSpace(s) ==
  IF s # <<>> /\ isspace(Head(s)) THEN SkipSpace(Tail(s)) ELSE s

RECURSIVE ParseDigits(_, _)
ParseDigits(s, acc) ==
  IF s # <<>> /\ isdigit(Head(s))
  THEN ParseDigits(Tail(s), acc * 10 + DigitVal(Head(s)))
  ELSE acc

\* strtoll(env, NULL, 10): leading white space, an optional sign, then the
\* longest run of decimal digits; 0 when there is none.  The clamp to
\* LLONG_MAX needs 19 digits and is out of reach of the strings modelled.
strtoll(s) ==
  LET a == SkipSpace(s)
      neg == a # <<>> /\ Head(a) = "-"
      b == IF a # <<>> /\ Head(a) \in {"-", "+"} THEN Tail(a) ELSE a
      v == ParseDigits(b, 0)
  IN IF neg THEN 0 - v ELSE v

\* ------------------------------------------------------------- defaults
DefaultCutoff == 1048576
DefaultOpenHint == TRUE
DefaultCloseDrop == TRUE

\* ------------------------------------------------------------- state
VARIABLES
  env,                \* the environment: FADV_SMALL_CUTOFF, FADV_OPEN_HINT, FADV_CLOSE_DROP
  resolvable,         \* the symbols dlsym(RTLD_NEXT, ..) finds
  init_once,          \* the pthread_once_t: "INIT", "RUNNING" or "DONE"
  real,               \* real_open .. real_fclose: TRUE when non-NULL
  small_file_cutoff,
  do_open_hint,
  do_close_drop,
  fetches,            \* how many times each symbol was looked up
  loads,              \* how many times load_config_from_env ran
  fdtab,              \* the descriptor table of the process
  streams,            \* descriptors wrapped by a live FILE
  size,               \* size in bytes of the regular file "f"
  th                  \* per thread: the entry point it is in and where

cfgvars == <<small_file_cutoff, do_open_hint, do_close_drop>>
initvars == <<init_once, real, fetches, loads>>
fsvars == <<fdtab, streams, size>>
vars == <<env, resolvable, init_once, real, small_file_cutoff,
          do_open_hint, do_close_drop, fetches, loads, fdtab, streams, size, th>>

\* ------------------------------------------------------------- configuration
\* mutant: zero is accepted as a cutoff (val >= 0)
CutoffAcceptsZero(e, cur) ==
  IF e.set
  THEN LET val == strtoll(e.val) IN IF val >= 0 THEN val ELSE cur
  ELSE cur

\* lines 37-41: the cutoff after load_config_from_env
CutoffAfterLoad(e, cur) ==
  IF e.set
  THEN LET val == strtoll(e.val) IN IF val > 0 THEN val ELSE cur
  ELSE cur

\* mutant: only "noreuse" enables the hint
OpenHintOnlyNoreuse(e, cur) ==
  IF e.set
  THEN IF e.val = NOREUSE THEN TRUE ELSE FALSE
  ELSE cur

\* lines 43-47: do_open_hint after load_config_from_env
OpenHintAfterLoad(e, cur) ==
  IF e.set
  THEN IF e.val = NONE THEN FALSE
       ELSE IF e.val = NOREUSE THEN TRUE ELSE cur
  ELSE cur

\* lines 49-53: do_close_drop after load_config_from_env
CloseDropAfterLoad(e, cur) ==
  IF e.set
  THEN IF e.val = ZERO THEN FALSE ELSE TRUE
  ELSE cur

\* ------------------------------------------------------------- the originals
\* an entry of the descriptor table: "none" (closed), or the file it is open on
ClosedFd == "none"
IsOpen(tab, fd) == fd \in FDs /\ tab[fd] # ClosedFd
FreeFds(tab) == {fd \in FDs : tab[fd] = ClosedFd}
LowestFree(tab) == CHOOSE fd \in FreeFds(tab) : \A g \in FreeFds(tab) : fd <= g

\* What the original open (and the raw open system call) does with a path:
\* the result, errno afterwards (e is errno before; success leaves it
\* alone) and the descriptor table afterwards.
OpenResult(path, wr, tab, e) ==
  IF path = "missing" THEN [ret |-> -1, errno |-> "ENOENT", fdtab |-> tab]
  ELSE IF path = "denied" THEN [ret |-> -1, errno |-> "EACCES", fdtab |-> tab]
  ELSE IF path = "d" /\ wr THEN [ret |-> -1, errno |-> "EISDIR", fdtab |-> tab]
  ELSE IF FreeFds(tab) = {} THEN [ret |-> -1, errno |-> "EMFILE", fdtab |-> tab]
  ELSE LET fd == LowestFree(tab)
       IN [ret |-> fd, errno |-> e,
           fdtab |-> [tab EXCEPT ![fd] = path]]

real_open(path, wr, tab, e) == OpenResult(path, wr, tab, e)
syscall_SYS_open(path, wr, tab, e) == OpenResult(path, wr, tab, e)

\* The original fopen: mode "w" (wr) opens for writing and truncates the
\* file, mode "r" opens for reading; the stream wraps the new descriptor.
real_fopen(path, wr, tab, strs, sz, e) ==
  LET o == OpenResult(path, wr, tab, e)
  IN IF o.ret < 0
     THEN [ret |-> NULL, errno |-> o.errno, fdtab |-> tab, streams |-> strs, size |-> sz]
     ELSE [ret |-> Handle(o.ret), errno |-> e, fdtab |-> o.fdtab,
           streams |-> strs \cup {o.ret},
           size |-> IF wr /\ path = "f" THEN 0 ELSE sz]

\* fdopen(fd, "r"): a stream around fd, or NULL with EBADF
fdopen(fd, tab, strs, e) ==
  IF IsOpen(tab, fd)
  THEN [ret |-> Handle(fd), errno |-> e, streams |-> strs \cup {fd}]
  ELSE [ret |-> NULL, errno |-> "EBADF", streams |-> strs]

\* The original read, pread, readv (and the raw system calls): the set of
\* results they can give on fd.  0 is end of file (or a zero-length
\* request), 1 stands for a positive byte count.
ReadResults(fd, tab, e) ==
  IF ~IsOpen(tab, fd) THEN {[ret |-> -1, errno |-> "EBADF"]}
  ELSE IF tab[fd] = "d" THEN {[ret |-> -1, errno |-> "EISDIR"]}
  ELSE {[ret |-> 0, errno |-> e], [ret |-> 1, errno |-> e]}

real_read(fd, tab, e) == ReadResults(fd, tab, e)
syscall_SYS_read(fd, tab, e) == ReadResults(fd, tab, e)

\* The original close (and the raw close system call)
CloseResult(fd, tab, e) ==
  IF IsOpen(tab, fd)
  THEN [ret |-> 0, errno |-> e, fdtab |-> [tab EXCEPT ![fd] = ClosedFd]]
  ELSE [ret |-> -1, errno |-> "EBADF", fdtab |-> tab]

real_close(fd, tab, e) == CloseResult(fd, tab, e)
syscall_SYS_close(fd, tab, e) == CloseResult(fd, tab, e)

\* The original fclose on a live stream: the stream is destroyed and its
\* descriptor closed; EOF (-1) when the descriptor was already closed.
real_fclose(h, tab, strs, e) ==
  LET c == CloseResult(fileno(h), tab, e)
  IN [ret |-> c.ret, errno |-> c.errno, fdtab |-> c.fdtab,
      streams |-> strs \ {fileno(h)}]

\* fstat(fd, &st): whether it succeeds, S_ISREG(st.st_mode) and st.st_size
fstat(fd, tab, sz) ==
  IF ~IsOpen(tab, fd) THEN [ok |-> FALSE, reg |-> FALSE, size |-> 0]
  ELSE IF tab[fd] = "f" THEN [ok |-> TRUE, reg |-> TRUE, size |-> sz]
  ELSE [ok |-> TRUE, reg |-> FALSE, size |-> 0]

\* ------------------------------------------------------------- threads
AllClosed == [fd \in FDs |-> ClosedFd]
NoOrig == [set |-> FALSE, ret |-> 0, errno |-> "E0", fdtab |-> AllClosed,
           streams |-> {}, size |-> 0]

\* A thread outside the shim.  Inside an entry point: op and the arguments
\* (path, wr: opened for writing; h: the FILE*; fd: the descriptor argument
\* or the descriptor just opened), ret and errno as the caller will see
\* them, step (position inside init_real_fns), inner (inside the open that
\* fopen's fallback calls), ev (what the call has done so far) and orig
\* (what the unwrapped original gives on the same input).
Idle == [pc |-> "idle", op |-> "none", path |-> "none", wr |-> FALSE, h |-> NULL,
         fd |-> -1, ret |-> -1, errno |-> "E0", step |-> 0, inner |-> FALSE,
         ev |-> <<>>, orig |-> NoOrig]

Alive == \A t \in Threads : th[t].pc # "crashed"

\* what posix_fadvise or fstat finds behind fd at this moment
Target(fd, tab, sz) ==
  IF ~IsOpen(tab, fd) THEN "closed"
  ELSE IF tab[fd] # "f" THEN "nonreg"
  ELSE IF sz > small_file_cutoff THEN "big" ELSE "small"

Ev(e, kind, fd, tgt) == [e |-> e, kind |-> kind, fd |-> fd, tgt |-> tgt]
OrigOf(res, tab, strs, sz) ==
  [set |-> TRUE, ret |-> res.ret, errno |-> res.errno, fdtab |-> tab,
   streams |-> strs, size |-> sz]

\* line 72 (try_drop_fd) and lines 84-85 (try_open_hint): the checks made
\* before the status query
DropGate(fd) == fd >= 0
OpenHintGate(fd) == do_open_hint /\ fd >= 0

\* mutant: a file of exactly the cutoff is skipped (st_size >= cutoff)
StatGuardExclusive(st) == st.ok /\ st.reg /\ ~(st.size >= small_file_cutoff)

\* mutant: the size check is missing
StatGuardNoSize(st) == st.ok /\ st.reg

\* mutant: the decision of the first status query made on behalf of the
\* caller is remembered and reused by the later ones
StatGuardCached(st) ==
  LET t == CHOOSE u \in Threads : th[u].pc = "stat"
      seen == {i \in DOMAIN th[t].ev : th[t].ev[i].e = "stat"}
      first == CHOOSE i \in seen : \A j \in seen : i <= j
  IN IF seen = {}
     THEN st.ok /\ st.reg /\ ~(st.size > small_file_cutoff)
     ELSE th[t].ev[first].tgt = "small"

\* mutant: the S_ISREG test is missing
StatGuardNoReg(st) == st.ok /\ ~(st.size > small_file_cutoff)

\* lines 74-76 and 87-89: the status query succeeded, the descriptor is a
\* regular file and its size does not exceed the cutoff
StatGuard(st) == st.ok /\ st.reg /\ ~(st.size > small_file_cutoff)

\* mutant: the drop at end of file is gated by do_close_drop
ReadDropGateGated(r, fd) == r = 0 /\ do_close_drop /\ DropGate(fd)

\* mutant: the drop runs on every read that did not fail (r >= 0)
ReadDropGateOnData(r, fd) == r >= 0 /\ DropGate(fd)

\* lines 155, 166, 176: the read family drops on a zero-byte result
ReadDropGate(r, fd) == r = 0 /\ DropGate(fd)

\* line 182 and lines 189-192: close and fclose call try_drop_fd first
CloseDropGate(op, h, fd) ==
  IF op = "close" THEN do_close_drop /\ DropGate(fd)
  ELSE h # NULL /\ do_close_drop /\ fileno(h) >= 0 /\ DropGate(fileno(h))

\* mutant: close and fclose delegate at once, without dropping first
EntryPcDelegatesFirst(r) == "deleg"

\* where an entry point goes when pthread_once has returned
EntryPc(r) ==
  IF r.op \in CloseFamily
  THEN IF CloseDropGate(r.op, r.h, r.fd) THEN "stat" ELSE "deleg"
  ELSE "deleg"

\* where control goes when try_open_hint or try_drop_fd returns
AfterTry(r) ==
  IF r.inner THEN "fdopen"
  ELSE IF r.op \in CloseFamily THEN "deleg" ELSE "ret"

\* the advice each entry point asks for (lines 79 and 92)
Advice(op) == IF op \in OpenFamily THEN "POSIX_FADV_NOREUSE" ELSE "POSIX_FADV_DONTNEED"

\* mutant: a caller that finds the routine running runs it too
OnceMayRunUnlocked(state) == state # "DONE"

\* mutant: a caller that finds the routine running does not wait
OnceMayPassEarly(state) == state # "INIT"

\* mutant: init_real_fns is called on every entry, without the once control
OnceMayRunAlways(state) == TRUE

\* pthread_once: the caller that finds the control untouched runs the
\* routine, a caller that finds it done passes, any other caller waits
OnceMayRun(state) == state = "INIT"

OnceMayPass(state) == state = "DONE"

\* mutant: the routine returns and the control is left as it was
OnceAfterRoutineStuck(state) == state

\* pthread_once marks the control done when the routine has returned
OnceAfterRoutine(state) == "DONE"

\* dlsym(RTLD_NEXT, name): non-NULL when the symbol is found
dlsym(name) == name \in resolvable

\* ------------------------------------------------------------- entry
Start(t, op, path, wr, h, fd) ==
  /\ Alive
  /\ th[t].pc = "idle"
  /\ th' = [th EXCEPT ![t] = [Idle EXCEPT !.pc = "once", !.op = op, !.path = path,
                                          !.wr = wr, !.h = h, !.fd = fd]]
  /\ UNCHANGED <<env, resolvable, initvars, cfgvars, fsvars>>

\* a caller enters open(pathname, flags), with errno cleared
open(t, P, W) ==
  \E p \in P, w \in W : /\ th[t].op = "none"
                         /\ Start(t, "open", p, w, NULL, -1)
open64(t, P, W) ==
  \E p \in P, w \in W : /\ th[t].op = "none"
                         /\ Start(t, "open64", p, w, NULL, -1)
fopen(t, P, W) ==
  \E p \in P, w \in W : /\ th[t].op = "none"
                         /\ Start(t, "fopen", p, w, NULL, -1)
read(t, F) ==
  \E fd \in F : /\ th[t].op = "none"
                /\ Start(t, "read", "none", FALSE, NULL, fd)
pread(t, F) ==
  \E fd \in F : /\ th[t].op = "none"
                /\ Start(t, "pread", "none", FALSE, NULL, fd)
readv(t, F) ==
  \E fd \in F : /\ th[t].op = "none"
                /\ Start(t, "readv", "none", FALSE, NULL, fd)
close(t, F) ==
  \E fd \in F : /\ th[t].op = "none"
                /\ Start(t, "close", "none", FALSE, NULL, fd)
\* fclose is given NULL or a live stream
fclose(t, H) ==
  \E h \in H : /\ h = NULL \/ fileno(h) \in streams
               /\ Start(t, "fclose", "none", FALSE, h, fileno(h))

\* ------------------------------------------------------------- one-time init
pthread_once(t) ==
  /\ Alive
  /\ th[t].pc = "once"
  /\ \/ /\ OnceMayPass(init_once)
        /\ th' = [th EXCEPT ![t].pc = EntryPc(th[t])]
        /\ UNCHANGED init_once
     \/ /\ OnceMayRun(init_once)
        /\ init_once' = "RUNNING"
        /\ th' = [th EXCEPT ![t].pc = "init", ![t].step = 1]
  /\ UNCHANGED <<env, resolvable, real, fetches, loads, cfgvars, fsvars>>

\* lines 57-64: one dlsym lookup of init_real_fns
init_real_fns(t) ==
  /\ Alive
  /\ th[t].pc = "init"
  /\ th[t].step \in 1..Len(SymOrder)
  /\ LET name == SymOrder[th[t].step]
     IN /\ real' = [real EXCEPT ![name] = dlsym(name)]
        /\ fetches' = [fetches EXCEPT ![name] = @ + 1]
  /\ th' = [th EXCEPT ![t].step = @ + 1]
  /\ UNCHANGED <<env, resolvable, init_once, loads, cfgvars, fsvars>>

\* line 67: load_config_from_env
load_config_from_env(t) ==
  /\ Alive
  /\ th[t].pc = "init"
  /\ th[t].step = Len(SymOrder) + 1
  /\ small_file_cutoff' = CutoffAfterLoad(env.cutoff, small_file_cutoff)
  /\ do_open_hint' = OpenHintAfterLoad(env.hint, do_open_hint)
  /\ do_close_drop' = CloseDropAfterLoad(env.drop, do_close_drop)
  /\ loads' = loads + 1
  /\ th' = [th EXCEPT ![t].step = @ + 1]
  /\ UNCHANGED <<env, resolvable, init_once, real, fetches, fsvars>>

\* init_real_fns returns: pthread_once marks the control done and returns
init_return(t) ==
  /\ Alive
  /\ th[t].pc = "init"
  /\ th[t].step = Len(SymOrder) + 2
  /\ init_once' = OnceAfterRoutine(init_once)
  /\ th' = [th EXCEPT ![t].pc = EntryPc(th[t]), ![t].step = 0]
  /\ UNCHANGED <<env, resolvable, real, fetches, loads, cfgvars, fsvars>>

\* ------------------------------------------------------------- delegation
\* lines 108-112 (open) and 127-131 (open64): the original or the raw
\* system call, then try_open_hint(fd) up to its status query
open_delegate(t) ==
  /\ Alive
  /\ th[t].pc = "deleg"
  /\ th[t].op \in {"open", "open64"}
  /\ LET r == th[t]
         res == IF real[r.op]
                THEN real_open(r.path, r.wr, fdtab, r.errno)
                ELSE syscall_SYS_open(r.path, r.wr, fdtab, r.errno)
         org == OpenResult(r.path, r.wr, fdtab, r.errno)
     IN /\ fdtab' = res.fdtab
        /\ th' = [th EXCEPT ![t] =
                    [r EXCEPT !.ret = res.ret, !.fd = res.ret, !.errno = res.errno,
                              !.orig = OrigOf(org, org.fdtab, streams, size),
                              !.ev = Append(@, Ev("deleg", "-", res.ret, "-")),
                              !.pc = IF OpenHintGate(res.ret) THEN "stat" ELSE "ret"]]
  /\ UNCHANGED <<env, resolvable, initvars, cfgvars, streams, size>>

\* lines 137-139: fopen calls the original or, without it, this shim's own
\* open(pathname, O_RDONLY), whose try_open_hint runs before fdopen
fopen_delegate(t) ==
  /\ Alive
  /\ th[t].pc = "deleg"
  /\ th[t].op = "fopen"
  /\ LET r == th[t]
         org == real_fopen(r.path, r.wr, fdtab, streams, size, r.errno)
         inn == IF real["open"]
                THEN real_open(r.path, FALSE, fdtab, r.errno)
                ELSE syscall_SYS_open(r.path, FALSE, fdtab, r.errno)
     IN IF real["fopen"]
        THEN /\ fdtab' = org.fdtab
             /\ streams' = org.streams
             /\ size' = org.size
             /\ th' = [th EXCEPT ![t] =
                        [r EXCEPT !.ret = org.ret, !.fd = fileno(org.ret),
                                  !.errno = org.errno,
                                  !.orig = OrigOf(org, org.fdtab, org.streams, org.size),
                                  !.ev = Append(@, Ev("deleg", "-", fileno(org.ret), "-")),
                                  !.pc = IF org.ret # NULL /\ do_open_hint
                                            /\ OpenHintGate(fileno(org.ret))
                                         THEN "stat" ELSE "ret"]]
        ELSE /\ fdtab' = inn.fdtab
             /\ UNCHANGED <<streams, size>>
             /\ th' = [th EXCEPT ![t] =
                        [r EXCEPT !.fd = inn.ret, !.errno = inn.errno, !.inner = TRUE,
                                  !.orig = OrigOf(org, org.fdtab, org.streams, org.size),
                                  !.ev = Append(@, Ev("deleg", "-", inn.ret, "-")),
                                  !.pc = IF OpenHintGate(inn.ret) THEN "stat" ELSE "fdopen"]]
  /\ UNCHANGED <<env, resolvable, initvars, cfgvars>>

\* lines 139-144: fdopen(fd, "r") on what the inner open returned, then
\* the hint of fopen itself
fopen_fdopen(t) ==
  /\ Alive
  /\ th[t].pc = "fdopen"
  /\ LET r == th[t]
         res == fdopen(r.fd, fdtab, streams, r.errno)
     IN /\ streams' = res.streams
        /\ th' = [th EXCEPT ![t] =
                    [r EXCEPT !.ret = res.ret, !.errno = res.errno, !.inner = FALSE,
                              !.fd = fileno(res.ret),
                              !.pc = IF res.ret # NULL /\ do_open_hint
                                        /\ OpenHintGate(fileno(res.ret))
                                     THEN "stat" ELSE "ret"]]
  /\ UNCHANGED <<env, resolvable, initvars, cfgvars, fdtab, size>>

\* lines 150-155, 161-166, 172-176: read, pread, readv
read_delegate(t) ==
  /\ Alive
  /\ th[t].pc = "deleg"
  /\ th[t].op \in ReadFamily
  /\ LET r == th[t]
     IN \E res \in (IF real[r.op] THEN real_read(r.fd, fdtab, r.errno)
                    ELSE syscall_SYS_read(r.fd, fdtab, r.errno)) :
          th' = [th EXCEPT ![t] =
                   [r EXCEPT !.ret = res.ret, !.errno = res.errno,
                             !.orig = OrigOf(res, fdtab, streams, size),
                             !.ev = Append(@, Ev("deleg", "-", r.fd, "-")),
                             !.pc = IF ReadDropGate(res.ret, r.fd) THEN "stat" ELSE "ret"]]
  /\ UNCHANGED <<env, resolvable, initvars, cfgvars, fsvars>>

\* lines 183-184: close
close_delegate(t) ==
  /\ Alive
  /\ th[t].pc = "deleg"
  /\ th[t].op = "close"
  /\ LET r == th[t]
         res == IF real["close"] THEN real_close(r.fd, fdtab, r.errno)
                ELSE syscall_SYS_close(r.fd, fdtab, r.errno)
         org == CloseResult(r.fd, fdtab, r.errno)
     IN /\ fdtab' = res.fdtab
        /\ th' = [th EXCEPT ![t] =
                    [r EXCEPT !.ret = res.ret, !.errno = res.errno,
                              !.orig = OrigOf(org, org.fdtab, streams, size),
                              !.ev = Append(@, Ev("deleg", "-", r.fd, "-")),
                              !.pc = "ret"]]
  /\ UNCHANGED <<env, resolvable, initvars, cfgvars, streams, size>>

\* lines 195-196: fclose calls the original, or returns 0 without it.
\* The original's behaviour on NULL is undefined: the process dies, or
\* the call fails.
fclose_delegate(t) ==
  /\ Alive
  /\ th[t].pc = "deleg"
  /\ th[t].op = "fclose"
  /\ LET r == th[t]
         org == real_fclose(r.h, fdtab, streams, r.errno)
     IN IF real["fclose"]
        THEN IF r.h = NULL
             THEN /\ UNCHANGED fsvars
                  /\ \/ th' = [th EXCEPT ![t].pc = "crashed"]
                     \/ th' = [th EXCEPT ![t] =
                                 [r EXCEPT !.ret = -1, !.errno = "EBADF",
                                           !.ev = Append(@, Ev("deleg", "-", r.fd, "-")),
                                           !.pc = "ret"]]
             ELSE /\ fdtab' = org.fdtab
                  /\ streams' = org.streams
                  /\ UNCHANGED size
                  /\ th' = [th EXCEPT ![t] =
                             [r EXCEPT !.ret = org.ret, !.errno = org.errno,
                                       !.orig = OrigOf(org, org.fdtab, org.streams, size),
                                       !.ev = Append(@, Ev("deleg", "-", r.fd, "-")),
                                       !.pc = "ret"]]
        ELSE /\ UNCHANGED fsvars
             /\ th' = [th EXCEPT ![t] =
                        [r EXCEPT !.ret = 0,
                                  !.orig = IF r.h = NULL THEN NoOrig
                                           ELSE OrigOf(org, org.fdtab, org.streams, size),
                                  !.pc = "ret"]]
  /\ UNCHANGED <<env, resolvable, initvars, cfgvars>>

\* ------------------------------------------------------------- advisory engine
\* lines 73-76 and 86-89: fstat and the guards after it.  A failed fstat
\* sets errno.
try_fstat(t) ==
  /\ Alive
  /\ th[t].pc = "stat"
  /\ LET r == th[t]
         st == fstat(r.fd, fdtab, size)
     IN th' = [th EXCEPT ![t] =
                 [r EXCEPT !.errno = IF st.ok THEN @ ELSE "EBADF",
                           !.ev = Append(@, Ev("stat", "-", r.fd, Target(r.fd, fdtab, size))),
                           !.pc = IF StatGuard(st) THEN "advise" ELSE AfterTry(r)]]
  /\ UNCHANGED <<env, resolvable, initvars, cfgvars, fsvars>>

\* lines 79 and 92: posix_fadvise(fd, 0, 0, advice).  It returns its error
\* instead of setting errno, and the shim ignores it.
posix_fadvise(t) ==
  /\ Alive
  /\ th[t].pc = "advise"
  /\ LET r == th[t]
     IN th' = [th EXCEPT ![t] =
                 [r EXCEPT !.ev = Append(@, Ev("adv", Advice(r.op), r.fd,
                                               Target(r.fd, fdtab, size))),
                           !.pc = AfterTry(r)]]
  /\ UNCHANGED <<env, resolvable, initvars, cfgvars, fsvars>>

\* the entry point returns to its caller
Return(t) ==
  /\ Alive
  /\ th[t].pc = "ret"
  /\ th' = [th EXCEPT ![t] = Idle]
  /\ UNCHANGED <<env, resolvable, initvars, cfgvars, fsvars>>

\* the entry point returns and the calling thread ends
Exit(t) ==
  /\ Alive
  /\ th[t].pc = "ret"
  /\ th' = [th EXCEPT ![t] = [Idle EXCEPT !.pc = "done"]]
  /\ UNCHANGED <<env, resolvable, initvars, cfgvars, fsvars>>

\* ------------------------------------------------------------- environment
\* sizes the regular file takes: empty, at and just above a cutoff of 2,
\* and just above the default cutoff
Sizes == {0, 2, 3, DefaultCutoff + 1}

\* the file is written or truncated behind the shim's back (line 76 reads
\* the live st_size on every call)
ResizeWithin(S) ==
  /\ Alive
  /\ \E n \in S \ {size} : size' = n
  /\ UNCHANGED <<env, resolvable, initvars, cfgvars, fdtab, streams, th>>

Resize == ResizeWithin(Sizes)

AllIdle == \A t \in Threads : th[t].pc = "idle"

\* ------------------------------------------------------------- specifications
InitWith(Envs, Res, Szs) ==
  /\ env \in Envs
  /\ resolvable \in Res
  /\ init_once = "INIT"
  /\ real = [o \in Ops |-> FALSE]
  /\ small_file_cutoff = DefaultCutoff
  /\ do_open_hint = DefaultOpenHint
  /\ do_close_drop = DefaultCloseDrop
  /\ fetches = [o \in Ops |-> 0]
  /\ loads = 0
  /\ fdtab = AllClosed
  /\ streams = {}
  /\ size \in Szs
  /\ th = [t \in Threads |-> Idle]

Step(t) ==
  \/ pthread_once(t)
  \/ init_real_fns(t)
  \/ load_config_from_env(t)
  \/ init_return(t)
  \/ open_delegate(t)
  \/ fopen_delegate(t)
  \/ fopen_fdopen(t)
  \/ read_delegate(t)
  \/ close_delegate(t)
  \/ fclose_delegate(t)
  \/ try_fstat(t)
  \/ posix_fadvise(t)

\* --- SeqSpec: one thread, every input, the file changes between calls
SeqEnvs ==
  [cutoff : {Unset, EnvVal(<<"2">>)},
   hint : {Unset, EnvVal(NONE)},
   drop : {Unset, EnvVal(ZERO)}]
SeqResolvable == {Ops, {}, Ops \ {"fopen"}}
ArgFds == {-1} \cup FDs
ArgHandles == {NULL} \cup {Handle(fd) : fd \in FDs}

SeqInit == InitWith(SeqEnvs, SeqResolvable, Sizes)
SeqCall(t) ==
  \/ open(t, Paths, BOOLEAN)
  \/ open64(t, Paths, BOOLEAN)
  \/ fopen(t, Paths, BOOLEAN)
  \/ read(t, ArgFds)
  \/ pread(t, ArgFds)
  \/ readv(t, ArgFds)
  \/ close(t, ArgFds)
  \/ fclose(t, ArgHandles)
SeqNext ==
  \/ SeqCall(1)
  \/ Step(1)
  \/ Return(1)
  \/ AllIdle /\ Resize
SeqSpec == SeqInit /\ [][SeqNext]_vars

\* --- Spec: NThreads threads, each making its first call to an entry
\* point, on the regular file and on descriptor 0, and ending after it
AllUnset == [cutoff |-> Unset, hint |-> Unset, drop |-> Unset]
ConcEnvs ==
  {AllUnset,
   [cutoff |-> EnvVal(<<"2">>), hint |-> EnvVal(NOREUSE), drop |-> EnvVal(ZERO)]}
ConcResolvable == {Ops, {}}
ConcSizes == {2, 3}

Init == InitWith(ConcEnvs, ConcResolvable, ConcSizes)
Call(t) ==
  \/ open(t, {"f"}, {FALSE})
  \/ open64(t, {"f"}, {FALSE})
  \/ fopen(t, {"f"}, {FALSE})
  \/ read(t, {0})
  \/ pread(t, {0})
  \/ readv(t, {0})
  \/ close(t, {0})
  \/ fclose(t, {Handle(0)})
Next == \E t \in Threads : Call(t) \/ Step(t) \/ Exit(t)
Spec == Init /\ [][Next]_vars

\* --- CfgSpec: every short value of the three variables, loaded by the
\* first call
CfgChars == {"0", "1", "9", "-", " ", "x"}
CfgStrings == UNION {[1..k -> CfgChars] : k \in 0..MaxLen}
CfgEnvs ==
  [cutoff : {Unset} \cup {EnvVal(v) : v \in CfgStrings},
   hint : {Unset, EnvVal(NONE), EnvVal(NOREUSE), EnvVal(<<"n", "o", "n">>), EnvVal(<<>>)},
   drop : {Unset, EnvVal(ZERO), EnvVal(<<"1">>), EnvVal(<<"0", "0">>), EnvVal(<<>>)}]

CfgInit == InitWith(CfgEnvs, {Ops}, {2})
CfgNext ==
  \/ close(1, {-1})
  \/ pthread_once(1)
  \/ init_real_fns(1)
  \/ load_config_from_env(1)
  \/ init_return(1)
  \/ close_delegate(1)
  \/ Return(1)
CfgSpec == CfgInit /\ [][CfgNext]_vars

\* --- ModeSpec: one thread, every input, every kind of value of
\* FADV_OPEN_HINT and FADV_CLOSE_DROP, a file below and one above the cutoff
ModeEnvs ==
  [cutoff : {Unset},
   hint : {Unset, EnvVal(NONE), EnvVal(NOREUSE), EnvVal(<<"x">>)},
   drop : {Unset, EnvVal(ZERO), EnvVal(<<"1">>)}]
ModeInit == InitWith(ModeEnvs, {Ops, {}}, {DefaultCutoff, DefaultCutoff + 1})
ModeNext ==
  \/ SeqCall(1)
  \/ Step(1)
  \/ Return(1)
ModeSpec == ModeInit /\ [][ModeNext]_vars

\* --- LiveSpec: NThreads threads, each making one call to open, read or
\* close.  dlsym misses any combination of these three symbols and the
\* environment is empty; or it finds every symbol or none and the
\* variables hold values none of them expects.  A thread inside the shim is
\* always scheduled again (the host's threads are preemptively scheduled
\* and pthread_once wakes its waiters).
OddEnv == [cutoff |-> EnvVal(<<"x">>), hint |-> EnvVal(<<"n">>), drop |-> EnvVal(<<>>)]
LiveUsed == {"open", "read", "close"}
LiveResolvable == {Ops \ S : S \in SUBSET LiveUsed}
LiveInit ==
  \/ InitWith({AllUnset}, LiveResolvable, {2})
  \/ InitWith({OddEnv}, {Ops, {}}, {2})
LiveCall(t) ==
  \/ open(t, {"f"}, {FALSE})
  \/ read(t, {0})
  \/ close(t, {0})
LiveStep(t) ==
  \/ pthread_once(t)
  \/ init_real_fns(t)
  \/ load_config_from_env(t)
  \/ init_return(t)
  \/ open_delegate(t)
  \/ read_delegate(t)
  \/ close_delegate(t)
  \/ try_fstat(t)
  \/ posix_fadvise(t)
LiveNext == \E t \in Threads : LiveCall(t) \/ LiveStep(t) \/ Exit(t)
LiveSpec ==
  /\ LiveInit
  /\ [][LiveNext]_vars
  /\ \A t \in Threads : WF_vars(LiveStep(t))

\* --- LifeSpec: one thread takes one descriptor through its life: open of
\* the regular file, reads until one returns 0, close.  The record of what
\* the calls did (ev) is carried from each call into the next.
NextCall(t, op, fd) ==
  /\ Alive
  /\ th[t].pc = "ret"
  /\ th' = [th EXCEPT ![t] = [Idle EXCEPT !.pc = "once", !.op = op, !.fd = fd,
                                          !.ev = th[t].ev]]
  /\ UNCHANGED <<env, resolvable, initvars, cfgvars, fsvars>>

\* the caller reads the descriptor it opened, again after a positive count
LifeRead(t) ==
  /\ \/ th[t].op = "open" /\ th[t].ret >= 0
     \/ th[t].op = "read" /\ th[t].ret > 0
  /\ Cardinality({i \in DOMAIN th[t].ev : th[t].ev[i].e = "deleg"}) <= MaxReads
  /\ NextCall(t, "read", th[t].fd)

\* the caller closes the descriptor when a read has returned 0
LifeClose(t) ==
  /\ th[t].op = "read" /\ th[t].ret = 0
  /\ NextCall(t, "close", th[t].fd)

LifeInit == InitWith(SeqEnvs, {Ops, {}}, Sizes)
LifeNext ==
  \/ open(1, {"f"}, {FALSE})
  \/ LifeRead(1)
  \/ LifeClose(1)
  \/ pthread_once(1)
  \/ init_real_fns(1)
  \/ load_config_from_env(1)
  \/ init_return(1)
  \/ open_delegate(1)
  \/ read_delegate(1)
  \/ close_delegate(1)
  \/ try_fstat(1)
  \/ posix_fadvise(1)
LifeSpec == LifeInit /\ [][LifeNext]_vars

\* --- DriftSpec: the life of one descriptor as in LifeSpec, the close
\* allowed at any point after the open, and the file written or truncated
\* between the calls
DriftClose(t) ==
  /\ th[t].op = "open" /\ th[t].ret >= 0
  /\ NextCall(t, "close", th[t].fd)

BetweenCalls ==
  /\ \A t \in Threads : th[t].pc \in {"idle", "ret"} /\ th[t].op # "close"
  /\ \E t \in Threads : th[t].pc = "ret"

DriftNext ==
  \/ LifeNext
  \/ DriftClose(1)
  \/ BetweenCalls /\ Resize
DriftSpec == LifeInit /\ [][DriftNext]_vars

\* --- RaceSpec: NThreads threads call open, on the regular file or the
\* directory, or close, on descriptor 0; a thread ends after its call, or
\* calls again when it has closed descriptor 0 (to reopen it); and the file
\* is written or truncated at any moment, also between the fstat and the
\* posix_fadvise of a call
RaceEnvs == {[cutoff |-> EnvVal(<<"2">>), hint |-> Unset, drop |-> Unset]}
RaceSizes == {2, 3}
RaceInit == InitWith(RaceEnvs, {Ops}, RaceSizes)
RaceCall(t) ==
  \/ open(t, {"f", "d"}, {FALSE})
  \/ close(t, {0})
RaceStep(t) ==
  \/ pthread_once(t)
  \/ init_real_fns(t)
  \/ load_config_from_env(t)
  \/ init_return(t)
  \/ open_delegate(t)
  \/ close_delegate(t)
  \/ try_fstat(t)
  \/ posix_fadvise(t)
\* the thread that has closed descriptor 0 returns to call again
Reopen(t) ==
  /\ th[t].op = "close" /\ th[t].ret = 0
  /\ fdtab[0] = ClosedFd
  /\ Return(t)

RaceNext ==
  \/ \E t \in Threads : RaceCall(t) \/ RaceStep(t) \/ Reopen(t) \/ Exit(t)
  \/ ResizeWithin(RaceSizes)
RaceSpec == RaceInit /\ [][RaceNext]_vars

\* ============================================================= claims
Advs(t, kind) ==
  {i \in DOMAIN th[t].ev : th[t].ev[i].e = "adv" /\ th[t].ev[i].kind = kind}
AllAdvs(t) == {i \in DOMAIN th[t].ev : th[t].ev[i].e = "adv"}
Delegs(t) == {i \in DOMAIN th[t].ev : th[t].ev[i].e = "deleg"}
InitDone == init_once = "DONE"
PastOnce == {"deleg", "stat", "advise", "fdopen", "ret", "done"}
\* the call opened a descriptor or a stream
Opened(r) == IF r.op = "fopen" THEN r.ret # NULL ELSE r.ret >= 0

\* C1: when a wrapped call returns, its return value and errno are those
\* the unwrapped original gives on the same input.
C1_PassThroughFidelity ==
  \A t \in Threads :
    (th[t].pc = "ret" /\ th[t].orig.set)
      => (th[t].ret = th[t].orig.ret /\ th[t].errno = th[t].orig.errno)

\* C2: init_real_fns runs once in the whole process: at most one thread is
\* ever inside it, every symbol is looked up at most once and the
\* configuration loaded at most once, and exactly once when the pass is over.
C2_InitExactlyOnce ==
  /\ Cardinality({t \in Threads : th[t].pc = "init"}) <= 1
  /\ \A o \in Ops : fetches[o] <= 1
  /\ loads <= 1
  /\ InitDone => (loads = 1 /\ \A o \in Ops : fetches[o] = 1)

\* every thread is inside pthread_once at the same time, one of them
\* running the pass
C2_Witness ==
  /\ init_once = "RUNNING"
  /\ \A t \in Threads : th[t].pc \in {"once", "init"}
  /\ \E t \in Threads : th[t].pc = "init" /\ th[t].step > Len(SymOrder)

\* C3: a thread that is past pthread_once (about to delegate, querying the
\* status, advising, returning) finds the pass complete: the control is
\* done, all eight symbols were looked up, the configuration is loaded and
\* nobody is inside init_real_fns.
C3_InitBeforeDelegation ==
  \A t \in Threads :
    th[t].pc \in PastOnce
      => /\ InitDone
         /\ \A o \in Ops : fetches[o] = 1 /\ real[o] = dlsym(o)
         /\ loads = 1
         /\ small_file_cutoff = CutoffAfterLoad(env.cutoff, DefaultCutoff)
         /\ do_open_hint = OpenHintAfterLoad(env.hint, DefaultOpenHint)
         /\ do_close_drop = CloseDropAfterLoad(env.drop, DefaultCloseDrop)
         /\ \A u \in Threads : th[u].pc # "init"

\* a thread waits in pthread_once while another is half way through the
\* lookups
C3_Witness ==
  \E t, u \in Threads :
    /\ th[t].pc = "init" /\ th[t].step = 4
    /\ th[u].pc = "once" /\ th[u].op = "read"

\* C4: a successful open, open64 or fopen of a regular file of at most the
\* cutoff, with the open hint enabled, has issued exactly one NOREUSE
\* advisory, on the new descriptor, when it returns.
C4_OneHintPerOpen ==
  \A t \in Threads :
    (/\ th[t].pc = "ret" /\ th[t].op \in OpenFamily /\ Opened(th[t])
     /\ do_open_hint
     /\ Target(th[t].fd, fdtab, size) = "small")
      => /\ Cardinality(Advs(t, "POSIX_FADV_NOREUSE")) = 1
         /\ \A i \in AllAdvs(t) : th[t].ev[i].fd = th[t].fd

\* C5: close and fclose of a regular file of at most the cutoff, with
\* close-drop enabled, have issued exactly one DONTNEED advisory on the
\* descriptor when they come to delegate, and none after delegating.
C5_DropBeforeClose ==
  \A t \in Threads :
    th[t].op \in CloseFamily =>
      /\ (/\ th[t].pc = "deleg" /\ do_close_drop
          /\ (th[t].op = "fclose" => th[t].h # NULL)
          /\ Target(th[t].fd, fdtab, size) = "small")
           => /\ Cardinality(Advs(t, "POSIX_FADV_DONTNEED")) = 1
              /\ Cardinality(AllAdvs(t)) = 1
              /\ \A i \in AllAdvs(t) : th[t].ev[i].fd = th[t].fd
              /\ Delegs(t) = {}
      /\ \A i \in AllAdvs(t), j \in Delegs(t) : i < j
      /\ Cardinality(AllAdvs(t)) <= 1

\* close returned 0 after one DONTNEED advisory on a file of exactly the
\* cutoff, issued before the descriptor was closed
C5_Witness ==
  \E t \in Threads :
    /\ th[t].pc = "ret" /\ th[t].op = "close" /\ th[t].ret = 0
    /\ size = small_file_cutoff
    /\ Len(th[t].ev) = 3
    /\ th[t].ev[2].e = "adv" /\ th[t].ev[2].tgt = "small"
    /\ th[t].ev[3].e = "deleg"

\* C6: opening or closing a file larger than the cutoff issues no advisory
\* of either kind, whatever the open-hint and close-drop settings.
C6_NoAdvisoryAboveCutoff ==
  \A t \in Threads :
    /\ (/\ th[t].pc = "ret" /\ th[t].op \in OpenFamily /\ Opened(th[t])
        /\ Target(th[t].fd, fdtab, size) = "big")
         => AllAdvs(t) = {}
    /\ (/\ th[t].pc \in {"deleg", "ret"} /\ th[t].op \in CloseFamily
        /\ \/ Target(th[t].fd, fdtab, size) = "big"
           \/ \E i \in DOMAIN th[t].ev : th[t].ev[i].tgt = "big")
         => AllAdvs(t) = {}

\* a file larger than the cutoff was closed with both settings enabled,
\* after its status was queried
C6_Witness ==
  \E t \in Threads :
    /\ th[t].pc = "ret" /\ th[t].op \in CloseFamily /\ th[t].ret = 0
    /\ do_open_hint /\ do_close_drop
    /\ size > small_file_cutoff
    /\ \E i \in DOMAIN th[t].ev : th[t].ev[i].e = "stat" /\ th[t].ev[i].tgt = "big"

\* C7: a read, pread or readv that returned 0 has issued one DONTNEED
\* advisory on the descriptor exactly when it is a regular file of at most
\* the cutoff, with close-drop enabled or disabled alike.
C7_DropOnZeroRead ==
  \A t \in Threads :
    (th[t].pc = "ret" /\ th[t].op \in ReadFamily /\ th[t].ret = 0)
      => /\ Advs(t, "POSIX_FADV_NOREUSE") = {}
         /\ Cardinality(Advs(t, "POSIX_FADV_DONTNEED")) =
              (IF Target(th[t].fd, fdtab, size) = "small" THEN 1 ELSE 0)
         /\ \A i \in AllAdvs(t) : th[t].ev[i].fd = th[t].fd

\* a read returned 0 and dropped the pages with close-drop disabled
C7_Witness ==
  \E t \in Threads :
    /\ th[t].pc = "ret" /\ th[t].op \in ReadFamily /\ th[t].ret = 0
    /\ ~do_close_drop
    /\ Advs(t, "POSIX_FADV_DONTNEED") # {}

\* C8: the open hint is off exactly when FADV_OPEN_HINT is "none" and
\* close-drop is off exactly when FADV_CLOSE_DROP is "0".  With the hint
\* off no call issues NOREUSE; with close-drop off close and fclose issue
\* no DONTNEED.  The DONTNEED advisories (at a zero-byte read, at close)
\* are decided without the open-hint setting and the NOREUSE advisory
\* without the close-drop setting.
C8_ModesSuppressOnlyTheirOwn ==
  InitDone =>
    /\ do_open_hint = ~(env.hint.set /\ env.hint.val = NONE)
    /\ do_close_drop = ~(env.drop.set /\ env.drop.val = ZERO)
    /\ \A t \in Threads :
         /\ ~do_open_hint => Advs(t, "POSIX_FADV_NOREUSE") = {}
         /\ (th[t].op \in CloseFamily /\ ~do_close_drop)
              => Advs(t, "POSIX_FADV_DONTNEED") = {}
         /\ (/\ th[t].pc = "ret" /\ th[t].op \in ReadFamily /\ th[t].ret = 0
             /\ Target(th[t].fd, fdtab, size) = "small")
              => Cardinality(Advs(t, "POSIX_FADV_DONTNEED")) = 1
         /\ (/\ th[t].pc = "deleg" /\ th[t].op \in CloseFamily /\ do_close_drop
             /\ (th[t].op = "fclose" => th[t].h # NULL)
             /\ Target(th[t].fd, fdtab, size) = "small")
              => Cardinality(Advs(t, "POSIX_FADV_DONTNEED")) = 1
         /\ (/\ th[t].pc = "ret" /\ th[t].op \in OpenFamily /\ Opened(th[t])
             /\ do_open_hint
             /\ Target(th[t].fd, fdtab, size) = "small")
              => Advs(t, "POSIX_FADV_NOREUSE") # {}

\* FADV_OPEN_HINT is neither "none" nor "noreuse" and FADV_CLOSE_DROP is
\* "0": an open still issued its hint
C8_Witness ==
  \E t \in Threads :
    /\ env.hint = EnvVal(<<"x">>) /\ env.drop = EnvVal(ZERO)
    /\ do_open_hint /\ ~do_close_drop
    /\ th[t].pc = "ret" /\ th[t].op = "open"
    /\ Advs(t, "POSIX_FADV_NOREUSE") # {}

\* the value of a string of decimal digits
RECURSIVE Decimal(_)
Decimal(s) ==
  IF s = <<>> THEN 0
  ELSE 10 * Decimal(SubSeq(s, 1, Len(s) - 1)) + DigitVal(s[Len(s)])
AllDigits(s) == s # <<>> /\ \A i \in DOMAIN s : isdigit(s[i])

\* C9: once the configuration is loaded the cutoff is positive; it is the
\* number FADV_SMALL_CUTOFF spells when that is a positive integer, and the
\* default of 1 MiB when the variable is unset, spells zero or a negative
\* number, or does not start with a number.
C9_CutoffPositive ==
  loads > 0 =>
    /\ small_file_cutoff > 0
    /\ ~env.cutoff.set => small_file_cutoff = DefaultCutoff
    /\ env.cutoff.set =>
         LET v == env.cutoff.val
         IN /\ (AllDigits(v) /\ Decimal(v) > 0) => small_file_cutoff = Decimal(v)
            /\ (AllDigits(v) /\ Decimal(v) = 0) => small_file_cutoff = DefaultCutoff
            /\ (v # <<>> /\ Head(v) = "-" /\ AllDigits(Tail(v)))
                 => small_file_cutoff = DefaultCutoff
            /\ (v = <<>> \/ (v # <<>> /\ Head(v) = "x"))
                 => small_file_cutoff = DefaultCutoff

\* FADV_SMALL_CUTOFF=019 was loaded and the first call went on to return
C9_Witness ==
  /\ env.cutoff = EnvVal(<<"0", "1", "9">>)
  /\ small_file_cutoff = 19
  /\ InitDone
  /\ th[1].pc = "ret"

\* C10: when the original of an entry point was not resolved, the call
\* returns what the original returns, with the original's errno, and
\* leaves the descriptor table, the streams and the file as the original
\* leaves them.
C10_FallbackEquivalent ==
  \A t \in Threads :
    (th[t].pc = "ret" /\ th[t].orig.set /\ ~real[th[t].op])
      => /\ th[t].ret = th[t].orig.ret
         /\ th[t].errno = th[t].orig.errno
         /\ fdtab = th[t].orig.fdtab
         /\ streams = th[t].orig.streams
         /\ size = th[t].orig.size

Stats(t) == {i \in DOMAIN th[t].ev : th[t].ev[i].e = "stat"}

\* C11: an fclose that returns has invoked the original fclose exactly
\* once, on the stream of the caller, and returns the original's result,
\* with a null handle and with close-drop disabled as well; the advisory
\* engine runs before that, on the descriptor of the handle, and never for
\* a null handle or a negative descriptor.
C11_FcloseAlwaysDelegates ==
  \A t \in Threads :
    th[t].op = "fclose" =>
      /\ th[t].pc = "ret"
           => /\ Cardinality(Delegs(t)) = 1
              /\ \A i \in Delegs(t) : th[t].ev[i].fd = fileno(th[t].h)
              /\ th[t].orig.set => th[t].ret = th[t].orig.ret
      /\ \A i \in Stats(t) \cup AllAdvs(t) :
           /\ th[t].h # NULL
           /\ th[t].ev[i].fd = fileno(th[t].h)
           /\ th[t].ev[i].fd >= 0
           /\ \A j \in Delegs(t) : i < j

\* the same with the original fclose resolved
C11_DelegatesWhenResolved == real["fclose"] => C11_FcloseAlwaysDelegates

\* the status queries of the call that found no regular file of at most
\* the cutoff
Rejects(t) == {i \in Stats(t) : th[t].ev[i].tgt # "small"}

\* every advisory follows a successful status query of the same,
\* non-negative descriptor that found a regular file of at most the
\* cutoff, and a status query that found anything else is followed by none
GuardedAdvisories(t) ==
  /\ \A i \in AllAdvs(t) :
       /\ i > 1
       /\ th[t].ev[i - 1].e = "stat"
       /\ th[t].ev[i - 1].tgt = "small"
       /\ th[t].ev[i - 1].fd = th[t].ev[i].fd
       /\ th[t].ev[i].fd >= 0
  /\ \A i \in Rejects(t) : i + 1 \notin AllAdvs(t)
  /\ th[t].pc = "advise" => Len(th[t].ev) \in Stats(t) \ Rejects(t)

\* C12: try_open_hint and try_drop_fd issue an advisory only for a
\* non-negative descriptor whose status query succeeded and found a regular
\* file of at most the cutoff; a call whose descriptor is negative, closed
\* or not a regular file issues none, still delegates once and returns the
\* result of the original.
C12_AdvisoryGuard ==
  \A t \in Threads :
    /\ GuardedAdvisories(t)
    /\ (/\ th[t].pc = "ret"
        /\ \/ Rejects(t) # {}
           \/ th[t].op \in ReadFamily \cup {"close"} /\ th[t].fd < 0)
         => /\ AllAdvs(t) = {}
            /\ Cardinality(Delegs(t)) = 1
            /\ th[t].orig.set => th[t].ret = th[t].orig.ret

\* the same with every original resolved
C12_GuardWhenResolved == resolvable = Ops => C12_AdvisoryGuard

\* the guard alone
C12_GuardOnly == \A t \in Threads : GuardedAdvisories(t)

\* a thread blocked in pthread_once: the routine is running in another thread
Waiting(t) ==
  th[t].pc = "once" /\ ~OnceMayPass(init_once) /\ ~OnceMayRun(init_once)

\* C13: a pass that has started finishes; every thread that entered an
\* entry point, the initializer and the threads blocked behind it alike,
\* reaches its delegation step; and once the pass is complete it stays
\* complete, nobody is inside it and nobody waits on it.
C13_InitAlwaysCompletes ==
  /\ (init_once = "RUNNING") ~> InitDone
  /\ \A t \in Threads : (th[t].pc \in {"once", "init"}) ~> (th[t].pc = "deleg")
  /\ [][InitDone => InitDone']_vars
  /\ [](InitDone => \A t \in Threads : th[t].pc # "init" /\ ~Waiting(t))

\* a thread is blocked behind a pass that has found some symbols and
\* missed others
C13_Witness ==
  \E t, u \in Threads :
    /\ th[t].pc = "init" /\ th[t].step = Len(SymOrder) + 1
    /\ Waiting(u)
    /\ \E o, q \in Ops : real[o] /\ ~real[q]

\* C14: in the open and read families every status query and advisory
\* comes after the delegated call, on the descriptor that call returned or
\* was given; an open that failed has made no status query and issued no
\* advisory, and neither has a read that returned anything but 0.
C14_AdvisoryAfterResult ==
  \A t \in Threads :
    th[t].op \in OpenFamily \cup ReadFamily =>
      /\ \A i \in Stats(t) \cup AllAdvs(t) :
           /\ \E j \in Delegs(t) : j < i /\ th[t].ev[j].fd = th[t].ev[i].fd
           /\ th[t].ev[i].fd >= 0
      /\ \A i \in AllAdvs(t) : th[t].ev[i].kind = Advice(th[t].op)
      /\ th[t].pc \in {"stat", "advise"}
           => /\ Delegs(t) # {}
              /\ th[t].fd >= 0
              /\ th[t].op \in ReadFamily => th[t].ret = 0
      /\ (th[t].pc = "ret" /\ th[t].op \in OpenFamily /\ ~Opened(th[t]))
           => Stats(t) \cup AllAdvs(t) = {}
      /\ (th[t].pc = "ret" /\ th[t].op \in ReadFamily /\ th[t].ret # 0)
           => Stats(t) \cup AllAdvs(t) = {}

\* a read that returned 0 queried the status and advised, in that order,
\* after the delegated read
C14_Witness ==
  \E t \in Threads :
    /\ th[t].pc = "ret" /\ th[t].op \in ReadFamily /\ th[t].ret = 0
    /\ Len(th[t].ev) = 3
    /\ th[t].ev[1].e = "deleg" /\ th[t].ev[2].e = "stat" /\ th[t].ev[3].e = "adv"
    /\ th[t].ev[3].kind = "POSIX_FADV_DONTNEED"

\* the advisories of the record, in the order they were issued
RECURSIVE AdvKinds(_)
AdvKinds(ev) ==
  IF ev = <<>> THEN <<>>
  ELSE IF Head(ev).e = "adv" THEN <<Head(ev).kind>> \o AdvKinds(Tail(ev))
  ELSE AdvKinds(Tail(ev))

\* C15: with the open hint and close-drop enabled, open, reads up to a
\* zero-byte read, close of a regular file of at most the cutoff issue
\* NOREUSE, DONTNEED, DONTNEED, in that order: one right after the open is
\* delegated, one right after the read that returned 0, one right before
\* the close is delegated, and nothing at the reads that returned data.  On
\* a file larger than the cutoff the same calls issue nothing.
C15_LifecycleTrace ==
  \A t \in Threads :
    (th[t].pc = "ret" /\ th[t].op = "close" /\ do_open_hint /\ do_close_drop)
      => LET ev == th[t].ev
             n == Len(ev)
         IN IF size > small_file_cutoff
            THEN AdvKinds(ev) = <<>>
            ELSE /\ AdvKinds(ev) = <<"POSIX_FADV_NOREUSE", "POSIX_FADV_DONTNEED",
                                     "POSIX_FADV_DONTNEED">>
                 /\ n >= 9
                 /\ ev[1].e = "deleg" /\ ev[3].e = "adv"
                 /\ \A i \in 4..(n - 5) : ev[i].e = "deleg"
                 /\ ev[n - 3].e = "adv" /\ ev[n - 1].e = "adv" /\ ev[n].e = "deleg"
                 /\ \A i \in AllAdvs(t) : ev[i].fd = th[t].fd /\ ev[i].tgt = "small"

\* a file of exactly the cutoff was opened, read twice with data, read to
\* the end and closed
C15_Witness ==
  \E t \in Threads :
    /\ th[t].pc = "ret" /\ th[t].op = "close" /\ th[t].ret = 0
    /\ do_open_hint /\ do_close_drop
    /\ size = small_file_cutoff
    /\ Len(th[t].ev) = 11
    /\ Len(AdvKinds(th[t].ev)) = 3

\* C16: every decision follows the status queried in the same invocation:
\* a status query is followed by an advisory exactly when it found a
\* regular file of at most the cutoff, whatever the earlier queries on the
\* descriptor found.  So, with close-drop enabled, a close finds the file
\* larger than the cutoff and issues nothing although the open issued its
\* hint, and finds it at most the cutoff and issues DONTNEED although the
\* open issued none.
C16_NoDescriptorMemory ==
  \A t \in Threads :
    LET ev == th[t].ev
        n == Len(ev)
    IN /\ \A i \in Stats(t) :
            IF i = n THEN (th[t].pc = "advise") = (ev[i].tgt = "small")
            ELSE (ev[i + 1].e = "adv") = (ev[i].tgt = "small")
       /\ (th[t].pc = "ret" /\ th[t].op = "close" /\ do_close_drop)
            => /\ size > small_file_cutoff
                    => (ev[n - 1].e = "stat" /\ ev[n - 1].tgt = "big")
               /\ ~(size > small_file_cutoff)
                    => /\ ev[n - 1].e = "adv" /\ ev[n - 1].kind = "POSIX_FADV_DONTNEED"
                       /\ ev[n - 2].e = "stat" /\ ev[n - 2].tgt = "small"

\* the open issued its hint, the file grew past the cutoff, and the close
\* issued nothing
C16_Witness ==
  \E t \in Threads :
    /\ th[t].pc = "ret" /\ th[t].op = "close" /\ do_open_hint /\ do_close_drop
    /\ th[t].ev[2].tgt = "small" /\ th[t].ev[3].e = "adv"
    /\ size > small_file_cutoff
    /\ Len(AdvKinds(th[t].ev)) = 1

\* the open issued no hint on a file larger than the cutoff, the file
\* shrank, and the close issued DONTNEED
C16_WitnessShrunk ==
  \E t \in Threads :
    /\ th[t].pc = "ret" /\ th[t].op = "close" /\ do_open_hint /\ do_close_drop
    /\ th[t].ev[2].tgt = "big"
    /\ ~(size > small_file_cutoff)
    /\ AdvKinds(th[t].ev) = <<"POSIX_FADV_DONTNEED">>

\* a step that stores into real_open .. real_fclose or into the three
\* configuration variables (fetches and loads count the stores)
WritesShared ==
  \/ real' # real
  \/ fetches' # fetches
  \/ loads' # loads
  \/ cfgvars' # cfgvars

\* C17: once the pass is complete no step of any thread stores into the
\* table of originals or into the configuration; every store is a step of
\* the one thread that is inside init_real_fns while the control is
\* neither untouched nor done.
C17_WriteOnce ==
  [][/\ InitDone => ~WritesShared
     /\ WritesShared =>
          /\ init_once = "RUNNING" /\ init_once' = "RUNNING"
          /\ Cardinality({t \in Threads : th[t].pc = "init"}) = 1
          /\ \A t \in Threads : th[t].pc # "init" => th'[t] = th[t]]_vars

\* the pass is complete, the thread that ran it is gone and another thread
\* has been through an entry point since
C17_Witness ==
  \E t, u \in Threads :
    /\ InitDone
    /\ th[t].pc = "done"
    /\ th[u].pc = "ret" /\ th[u].op \in Ops
    /\ Len(th[u].ev) > 0

\* C18: every advisory lands on a descriptor that is, when posix_fadvise
\* executes, a regular file of at most the cutoff, whatever other threads
\* do between the status query and the advisory.
C18_AdvisoryTargetStillSmall ==
  \A t \in Threads : \A i \in AllAdvs(t) : th[t].ev[i].tgt = "small"

\* C18 as amended: every advisory is issued on the descriptor number whose
\* status query, earlier in the same invocation, found a regular file of
\* at most the cutoff, and a thread about to advise has made that query;
\* what the number refers to when posix_fadvise executes is not checked
\* again.
C18_AdvisoryTargetWasSmall ==
  \A t \in Threads :
    /\ \A i \in AllAdvs(t) :
         /\ i - 1 \in Stats(t) \ Rejects(t)
         /\ th[t].ev[i - 1].fd = th[t].ev[i].fd
         /\ th[t].ev[i].tgt \in {"small", "big", "nonreg", "closed"}
    /\ th[t].pc = "advise"
         => /\ Len(th[t].ev) \in Stats(t) \ Rejects(t)
            /\ th[t].ev[Len(th[t].ev)].fd = th[t].fd

\* an advisory was issued on a descriptor that another thread had closed
\* and reopened on the directory after the status query
C18_Witness ==
  \E t \in Threads : \E i \in AllAdvs(t) :
    /\ th[t].ev[i - 1].e = "stat" /\ th[t].ev[i - 1].tgt = "small"
    /\ th[t].ev[i].tgt = "nonreg"

\* an advisory was issued on a file that had grown past the cutoff after
\* the status query
C18_WitnessGrown ==
  \E t \in Threads : \E i \in AllAdvs(t) :
    /\ th[t].ev[i - 1].e = "stat" /\ th[t].ev[i - 1].tgt = "small"
    /\ th[t].ev[i].tgt = "big"

====
